---- MODULE Spec2Model ----
(***************************************************************************)
(* Model of surch's organization orchestrator                              *)
(* (src/surch/organization.py) as driven by the CLI (src/surch/surch.py).  *)
(*                                                                         *)
(* One run of organization.search() is a sequential process; pc is its     *)
(* position.  The steps are cut at the I/O boundaries: construction of     *)
(* the Organization object, the search-list check, the account-metadata    *)
(* request, each list-page request, the entry of the dispatch loop, each   *)
(* loop iteration up to its repo.search call, the end of that call,        *)
(* cleanup and printing.                                                   *)
(*                                                                         *)
(* Arithmetic is Python 2 arithmetic (the code base uses lgr.warn and      *)
(* integer `/`): repository_number / repository_per_page is floor          *)
(* division.                                                               *)
(***************************************************************************)
EXTENDS Integers, Sequences, FiniteSets, TLC

(* ---------------------------- bounds ----------------------------------- *)
MaxRepos == 3
MaxPageSize == 2

(* ------------------------- input universes ----------------------------- *)
RepoNames == {"a", "b", "c"}
SearchLists == {<<>>, <<"TODO">>}

InjectiveSeqs(S, n) ==
    UNION {{s \in [1..k -> S] : \A i, j \in 1..k : i # j => s[i] # s[j]}
           : k \in 0..n}

\* The ordered repository lists an account can have on GitHub.
AccountRepoLists == InjectiveSeqs(RepoNames, MaxRepos)

(* --------------------------- pure helpers ------------------------------ *)
Min(x, y) == IF x < y THEN x ELSE y

\* One element of a list-page response: the fields the code reads plus one
\* it discards.
CloneUrl(n) == <<"https://github.com", n, ".git">>
RepoJson(n) == [name |-> n, clone_url |-> CloneUrl(n), fork |-> FALSE]

\* GitHub's answer to .../repos?per_page=per_page&page=p for an account
\* whose repositories are repos.
PageResponse(repos, p, per_page) ==
    LET lo == (p - 1) * per_page + 1
        hi == Min(p * per_page, Len(repos))
    IN  [i \in 1..(IF hi >= lo THEN hi - lo + 1 ELSE 0) |->
            RepoJson(repos[lo + i - 1])]

\* Mutant: only a repository named in both lists counts as a conflict.
ConflictingFilters_Overlap(skip, check) == skip \cap check # {}

\* if repos_to_skip and repos_to_check
ConflictingFilters(skip, check) == skip # {} /\ check # {}

\* search_list = search_list or self.search_list
EffectiveSearchList(arg, own) == IF arg # <<>> THEN arg ELSE own

\* Mutant: the check tests for a missing list, never true of a list.
SearchListEmpty_IsNone(sl) == sl = <<"None">>

\* len(search_list) == 0
SearchListEmpty(sl) == Len(sl) = 0

\* Mutant: sys.exit() without a status.
NotFoundOutcome_ExitZero == [pc |-> "exited", exit_status |-> 0]

\* What the NOT_FOUND branch does: lgr.error(...) and sys.exit(1).
NotFoundOutcome == [pc |-> "exited", exit_status |-> 1]

\* The page loop runs only inside `if remainder > 0`.
PageLoopEntered(n, per_page) == (n % per_page) > 0

\* last_page_number as it stands when range(1, last_page_number) is built.
LastPageNumber(n, per_page) == (n \div per_page) + 2

\* _parse_json_list_of_dict: keep exactly the listed keys of every element.
ParseJsonListOfDict(data, keys) ==
    [i \in 1..Len(data) |-> [k \in keys |-> data[i][k]]]

\* The two filter branches of the dispatch loop.
Selected(name, check, skip) ==
    IF Cardinality(check) > 0 THEN name \in check ELSE name \notin skip

\* utils.handle_results_file(path, consolidate_log): the file at path,
\* whether an earlier run or a collaborator of this run wrote it, is deleted
\* unless consolidate_log is set.
HandleResultsFile(l, consolidate) ==
    IF ~consolidate /\ l \in {"present", "written"} THEN "deleted" ELSE l

\* repo.search writes its findings into the ledger.
CollaboratorWrites(l) == "written"

\* How one call of repo.search can end: it returns, or it raises SurchError.
RepoSearchOutcomes == {"ok", "raise"}

\* The two CLI commands that start organization.search().
Commands == {"org", "user"}

\* The organization_flag organization.search() works with when a CLI command
\* calls it: surch_org does not pass it, surch_user passes is_organization,
\* which search() swallows in **kwargs; both get the default True.
CliOrganizationFlag(command) == TRUE

\* self.item_type = 'orgs' if organization_flag else 'users'
ItemType(flag) == IF flag THEN "orgs" ELSE "users"

\* Mutant: consolidate_log defaults to True.
DefaultConsolidateLog_True == TRUE

\* The consolidate_log of an Organization built without a config file:
\* search() does not pass it, so the constructor's default applies.
DefaultConsolidateLog == FALSE

\* Mutant: the ledger is always prepared as for a fresh run.
ConsolidateArgument_AlwaysFresh(consolidate) == FALSE

\* The second argument of utils.handle_results_file in __init__.
ConsolidateArgument(consolidate) == consolidate

\* Mutant: the re-parsed list is appended to the list kept so far.
AssignSpecificData_Extend(old, parsed) == old \o parsed

\* self.repository_specific_data = self._parse_json_list_of_dict(...)
AssignSpecificData(old, parsed) == parsed

\* The account name and the clone directories a run can be given: an
\* absolute path and a relative one.
OrganizationName == "acme"
ClonePaths == {<<"/", "clones">>, <<"clones">>}
IsAbsolute(path) == path # <<>> /\ path[1] = "/"

\* os.path.join(a, b) for a one-component a.
PathJoin(a, b) == IF IsAbsolute(b) THEN b ELSE <<a>> \o b

(* ------------------------------ state ---------------------------------- *)
VARIABLES
    pc,                       \* position of the run
    command,                  \* the CLI command that started the run
    organization_flag,        \* argument of search()
    item_type,                \* self.item_type
    config_file,              \* run built from a config file?
    search_list,              \* argument of search()
    self_search_list,         \* self.search_list
    effective_search_list,    \* local search_list of Organization.search
    repos_to_skip,
    repos_to_check,
    consolidate_log,
    print_result,
    remove_cloned_dir,
    cloned_repos_path,        \* self.cloned_repos_path
    clone_dir,                \* the directory __init__ makes, on disk
    ledger,                   \* results.json on disk
    results_file_calls,       \* every utils.handle_results_file call
    account_repos,            \* the account's repositories on GitHub
    repository_per_page,
    last_page_number,
    page_num,
    http_log,                 \* every HTTP request issued, in order
    repository_data,          \* self.repository_data
    repository_specific_data, \* self.repository_specific_data
    specific_data_set,        \* has that attribute been assigned?
    idx,                      \* position of the dispatch loop
    dispatched,               \* every repo.search call made, in order
    removed_paths,            \* every utils.remove_repos_folder call
    cleanup_ran,
    printed,
    exit_status               \* -1 while running

vars == <<pc, command, organization_flag, item_type, config_file,
          search_list, self_search_list,
          effective_search_list, repos_to_skip, repos_to_check,
          consolidate_log, print_result, remove_cloned_dir,
          cloned_repos_path, clone_dir,
          ledger, results_file_calls, account_repos, repository_per_page,
          last_page_number,
          page_num, http_log, repository_data, repository_specific_data,
          specific_data_set, idx, dispatched, removed_paths, cleanup_ran,
          printed, exit_status>>

config == <<command, organization_flag, config_file, search_list,
            self_search_list, repos_to_skip,
            repos_to_check, consolidate_log, print_result,
            remove_cloned_dir>>

\* Mutant: the include branch hands the run's own settings down.
IncludeBranchCall_OwnFlags(r) ==
    [repo_url |-> r.clone_url,
     search_list |-> effective_search_list,
     cloned_repo_dir |-> cloned_repos_path,
     print_result |-> print_result,
     remove_cloned_dir |-> remove_cloned_dir,
     consolidate_log |-> consolidate_log]

\* The arguments of repo.search on the include branch.
IncludeBranchCall(r) ==
    [repo_url |-> r.clone_url,
     search_list |-> effective_search_list,
     cloned_repo_dir |-> cloned_repos_path,
     print_result |-> FALSE,
     remove_cloned_dir |-> FALSE,
     consolidate_log |-> TRUE]

\* The arguments of repo.search on the exclude branch.
ExcludeBranchCall(r) ==
    [repo_url |-> r.clone_url,
     search_list |-> effective_search_list,
     cloned_repo_dir |-> cloned_repos_path,
     print_result |-> FALSE,
     remove_cloned_dir |-> FALSE,
     consolidate_log |-> TRUE]

\* The state when a CLI command calls organization.search(): the arguments
\* and the disk as the run finds them.  Without a config file
\* self.search_list is the argument and consolidate_log keeps the
\* constructor's default.
Init ==
    /\ pc = "start"
    /\ command \in Commands
    /\ organization_flag = CliOrganizationFlag(command)
    /\ item_type = "unset"
    /\ config_file \in BOOLEAN
    /\ search_list \in SearchLists
    /\ self_search_list \in SearchLists
    /\ ~config_file => self_search_list = search_list
    /\ consolidate_log \in BOOLEAN
    /\ ~config_file => consolidate_log = DefaultConsolidateLog
    /\ repos_to_skip \in SUBSET RepoNames
    /\ repos_to_check \in SUBSET RepoNames
    /\ print_result \in BOOLEAN
    /\ remove_cloned_dir \in BOOLEAN
    /\ cloned_repos_path \in ClonePaths
    /\ clone_dir \in {"absent", "preexisting"}
    /\ ledger \in {"absent", "present"}
    /\ results_file_calls = <<>>
    /\ effective_search_list = <<>>
    /\ account_repos = <<>>
    /\ repository_per_page = 1
    /\ last_page_number = 0
    /\ page_num = 0
    /\ http_log = <<>>
    /\ repository_data = <<>>
    /\ repository_specific_data = <<>>
    /\ specific_data_set = FALSE
    /\ idx = 0
    /\ dispatched = <<>>
    /\ removed_paths = <<>>
    /\ cleanup_ran = FALSE
    /\ printed = FALSE
    /\ exit_status = -1

(* ----------------------------- actions --------------------------------- *)

\* organization.search() builds the Organization: __init__.
Construct ==
    /\ pc = "start"
    /\ IF ConflictingFilters(repos_to_skip, repos_to_check)
       THEN /\ pc' = "exited"
            /\ exit_status' = 1
            /\ UNCHANGED <<clone_dir, ledger, results_file_calls,
                           item_type>>
       ELSE /\ clone_dir' = IF clone_dir = "absent" THEN "created"
                            ELSE clone_dir
            /\ results_file_calls' = Append(results_file_calls,
                   [consolidate |-> ConsolidateArgument(consolidate_log)])
            /\ ledger' = HandleResultsFile(ledger,
                                           ConsolidateArgument(consolidate_log))
            /\ item_type' = ItemType(organization_flag)
            /\ pc' = "constructed"
            /\ UNCHANGED exit_status
    /\ UNCHANGED <<config, effective_search_list, cloned_repos_path,
                   account_repos,
                   repository_per_page, last_page_number, page_num,
                   http_log, repository_data, repository_specific_data,
                   specific_data_set, idx, dispatched, removed_paths,
                   cleanup_ran, printed>>

\* Organization.search: the search-list check.
CheckSearchList ==
    /\ pc = "constructed"
    /\ effective_search_list' =
           EffectiveSearchList(search_list, self_search_list)
    /\ IF SearchListEmpty(effective_search_list')
       THEN pc' = "exited" /\ exit_status' = 1
       ELSE pc' = "enumerating" /\ UNCHANGED exit_status
    /\ UNCHANGED <<config, item_type, cloned_repos_path, clone_dir, ledger,
                   results_file_calls, account_repos,
                   repository_per_page, last_page_number, page_num,
                   http_log, repository_data, repository_specific_data,
                   specific_data_set, idx, dispatched, removed_paths,
                   cleanup_ran, printed>>

\* get_github_repo_list up to the page loop: the metadata request, the
\* not-found exit and the page count.
GetMetadata ==
    /\ pc = "enumerating"
    /\ \E found \in BOOLEAN, repos \in AccountRepoLists,
          per_page \in 1..MaxPageSize :
        /\ http_log' = Append(http_log,
               [kind |-> "meta", page |-> 0, endpoint |-> item_type,
                status |-> IF found THEN "ok" ELSE "not_found"])
        /\ IF ~found
           THEN /\ repos = <<>>
                /\ per_page = 1
                /\ pc' = NotFoundOutcome.pc
                /\ exit_status' = NotFoundOutcome.exit_status
                /\ UNCHANGED <<account_repos, repository_per_page,
                               last_page_number, page_num>>
           ELSE /\ account_repos' = repos
                /\ repository_per_page' = per_page
                /\ UNCHANGED exit_status
                /\ IF PageLoopEntered(Len(repos), per_page)
                   THEN /\ last_page_number' =
                               LastPageNumber(Len(repos), per_page)
                        /\ page_num' = 1
                        /\ pc' = "paging"
                   ELSE /\ last_page_number' = Len(repos) \div per_page
                        /\ page_num' = 0
                        /\ pc' = "enumerated"
    /\ UNCHANGED <<config, item_type, effective_search_list,
                   cloned_repos_path, clone_dir, ledger, results_file_calls,
                   repository_data, repository_specific_data,
                   specific_data_set, idx, dispatched, removed_paths,
                   cleanup_ran, printed>>

\* One iteration of `for page_num in range(1, last_page_number)`.
FetchPage ==
    /\ pc = "paging"
    /\ http_log' = Append(http_log, [kind |-> "page", page |-> page_num,
                                     endpoint |-> item_type,
                                     status |-> "ok"])
    /\ repository_data' = repository_data \o
           PageResponse(account_repos, page_num, repository_per_page)
    /\ repository_specific_data' =
           AssignSpecificData(repository_specific_data,
               ParseJsonListOfDict(repository_data', {"name", "clone_url"}))
    /\ specific_data_set' = TRUE
    /\ page_num' = page_num + 1
    /\ pc' = IF page_num + 1 < last_page_number THEN "paging"
             ELSE "enumerated"
    /\ UNCHANGED <<config, item_type, effective_search_list,
                   cloned_repos_path, clone_dir, ledger, results_file_calls,
                   account_repos, repository_per_page, last_page_number,
                   idx, dispatched, removed_paths, cleanup_ran, printed,
                   exit_status>>

\* Organization.search after get_github_repo_list returned: the clone path
\* is joined to the account name, then the for statement reads
\* self.repository_specific_data, which only the page loop assigns; reading
\* it unassigned raises AttributeError.
BeginDispatch ==
    /\ pc = "enumerated"
    /\ cloned_repos_path' = PathJoin(OrganizationName, cloned_repos_path)
    /\ IF specific_data_set
       THEN pc' = "dispatching" /\ idx' = 1 /\ UNCHANGED exit_status
       ELSE pc' = "exited" /\ exit_status' = 1 /\ UNCHANGED idx
    /\ UNCHANGED <<config, item_type, effective_search_list, clone_dir,
                   ledger, results_file_calls,
                   account_repos, repository_per_page, last_page_number,
                   page_num, http_log, repository_data,
                   repository_specific_data, specific_data_set, dispatched,
                   removed_paths, cleanup_ran, printed>>

\* Mutant: the loop starts the search and goes on without waiting for it.
DispatchStep_NoWait ==
    /\ pc = "dispatching"
    /\ idx <= Len(repository_specific_data)
    /\ LET r == repository_specific_data[idx]
           call == IF Cardinality(repos_to_check) > 0
                   THEN IncludeBranchCall(r) ELSE ExcludeBranchCall(r)
       IN
       IF Selected(r.name, repos_to_check, repos_to_skip)
       THEN dispatched' = Append(dispatched,
                     [repo_url |-> call.repo_url,
                      search_list |-> call.search_list,
                      cloned_repo_dir |-> call.cloned_repo_dir,
                      print_result |-> call.print_result,
                      remove_cloned_dir |-> call.remove_cloned_dir,
                      consolidate_log |-> call.consolidate_log,
                      outcome |-> "running"])
       ELSE UNCHANGED dispatched
    /\ idx' = idx + 1
    /\ UNCHANGED <<pc, exit_status, ledger>>
    /\ UNCHANGED <<config, item_type, effective_search_list,
                   cloned_repos_path, clone_dir, results_file_calls,
                   account_repos, repository_per_page, last_page_number,
                   page_num, http_log, repository_data,
                   repository_specific_data, specific_data_set,
                   removed_paths, cleanup_ran, printed>>

\* One iteration of the dispatch loop, up to the call of repo.search.
\* repo.search is a plain call: the loop waits for it to return.
DispatchStep ==
    /\ pc = "dispatching"
    /\ idx <= Len(repository_specific_data)
    /\ LET r == repository_specific_data[idx]
           call == IF Cardinality(repos_to_check) > 0
                   THEN IncludeBranchCall(r) ELSE ExcludeBranchCall(r)
       IN
       IF Selected(r.name, repos_to_check, repos_to_skip)
       THEN /\ dispatched' = Append(dispatched,
                     [repo_url |-> call.repo_url,
                      search_list |-> call.search_list,
                      cloned_repo_dir |-> call.cloned_repo_dir,
                      print_result |-> call.print_result,
                      remove_cloned_dir |-> call.remove_cloned_dir,
                      consolidate_log |-> call.consolidate_log,
                      outcome |-> "running"])
            /\ pc' = "in_repo_search"
            /\ UNCHANGED idx
       ELSE /\ idx' = idx + 1
            /\ UNCHANGED <<pc, dispatched>>
    /\ UNCHANGED <<config, item_type, effective_search_list,
                   cloned_repos_path, clone_dir, ledger, results_file_calls,
                   account_repos, repository_per_page, last_page_number,
                   page_num, http_log, repository_data,
                   repository_specific_data, specific_data_set,
                   removed_paths, cleanup_ran, printed, exit_status>>

\* repo.search ends.  If it returns, the loop goes on with the next
\* repository.  An exception is not caught in the loop; the CLI turns it
\* into sys.exit(ex).
RepoSearchReturns ==
    /\ pc = "in_repo_search"
    /\ \E outcome \in RepoSearchOutcomes :
          /\ dispatched' = [dispatched EXCEPT
                               ![Len(dispatched)].outcome = outcome]
          /\ IF outcome = "raise"
             THEN /\ pc' = "exited"
                  /\ exit_status' = 1
                  /\ UNCHANGED <<idx, ledger>>
             ELSE /\ idx' = idx + 1
                  /\ ledger' = CollaboratorWrites(ledger)
                  /\ pc' = "dispatching"
                  /\ UNCHANGED exit_status
    /\ UNCHANGED <<config, item_type, effective_search_list,
                   cloned_repos_path, clone_dir, results_file_calls,
                   account_repos, repository_per_page, last_page_number,
                   page_num, http_log, repository_data,
                   repository_specific_data, specific_data_set,
                   removed_paths, cleanup_ran, printed>>

\* Mutant: cleanup prepares the ledger once more.
Cleanup_PreparesLedgerAgain ==
    /\ pc = "dispatching"
    /\ idx > Len(repository_specific_data)
    /\ cleanup_ran' = TRUE
    /\ IF remove_cloned_dir
       THEN /\ removed_paths' = Append(removed_paths, cloned_repos_path)
            /\ clone_dir' = IF IsAbsolute(cloned_repos_path) THEN "removed"
                            ELSE clone_dir
       ELSE UNCHANGED <<removed_paths, clone_dir>>
    /\ results_file_calls' = Append(results_file_calls,
           [consolidate |-> ConsolidateArgument(consolidate_log)])
    /\ ledger' = HandleResultsFile(ledger,
                                   ConsolidateArgument(consolidate_log))
    /\ pc' = "cleaned"
    /\ UNCHANGED <<config, item_type, effective_search_list,
                   cloned_repos_path, account_repos,
                   repository_per_page, last_page_number, page_num,
                   http_log, repository_data, repository_specific_data,
                   specific_data_set, idx, dispatched, printed,
                   exit_status>>

\* if self.remove_cloned_dir: utils.remove_repos_folder(...).  The path
\* removed is the joined one; it is the directory __init__ made when that
\* path is absolute.
Cleanup ==
    /\ pc = "dispatching"
    /\ idx > Len(repository_specific_data)
    /\ cleanup_ran' = TRUE
    /\ IF remove_cloned_dir
       THEN /\ removed_paths' = Append(removed_paths, cloned_repos_path)
            /\ clone_dir' = IF IsAbsolute(cloned_repos_path) THEN "removed"
                            ELSE clone_dir
       ELSE UNCHANGED <<removed_paths, clone_dir>>
    /\ pc' = "cleaned"
    /\ UNCHANGED <<config, item_type, effective_search_list,
                   cloned_repos_path, ledger, results_file_calls,
                   account_repos,
                   repository_per_page, last_page_number, page_num,
                   http_log, repository_data, repository_specific_data,
                   specific_data_set, idx, dispatched, printed,
                   exit_status>>

\* if self.print_result: utils.print_result(...); then search() returns.
PrintResult ==
    /\ pc = "cleaned"
    /\ printed' = print_result
    /\ pc' = "exited"
    /\ exit_status' = 0
    /\ UNCHANGED <<config, item_type, effective_search_list,
                   cloned_repos_path, clone_dir, ledger, results_file_calls,
                   account_repos, repository_per_page, last_page_number,
                   page_num, http_log, repository_data,
                   repository_specific_data, specific_data_set, idx,
                   dispatched, removed_paths, cleanup_ran>>

Next ==
    \/ Construct
    \/ CheckSearchList
    \/ GetMetadata
    \/ FetchPage
    \/ BeginDispatch
    \/ DispatchStep
    \/ RepoSearchReturns
    \/ Cleanup
    \/ PrintResult

Spec == Init /\ [][Next]_vars

TypeOK ==
    /\ pc \in {"start", "constructed", "enumerating", "paging",
               "enumerated", "dispatching", "in_repo_search", "cleaned",
               "exited"}
    /\ exit_status \in {-1, 0, 1}
    /\ (pc = "exited") = (exit_status # -1)

(* ------------------- vocabulary of the properties ---------------------- *)

\* ceil(n / per_page)
Ceil(n, per_page) == (n + per_page - 1) \div per_page

\* The page numbers of the list-page requests issued so far, in order.
PagesRequested ==
    LET pages == SelectSeq(http_log, LAMBDA q : q.kind = "page")
    IN  [i \in 1..Len(pages) |-> pages[i].page]

\* The repo_url of every collaborator invocation so far, in order.
DispatchedUrls == [i \in 1..Len(dispatched) |-> dispatched[i].repo_url]

\* The clone URLs of the elements of all whose name satisfies Keep, in the
\* order of all.
RECURSIVE UrlsWhere(_, _)
UrlsWhere(all, keep) ==
    IF all = <<>> THEN <<>>
    ELSE (IF Head(all).name \in keep THEN <<Head(all).clone_url>> ELSE <<>>)
         \o UrlsWhere(Tail(all), keep)

\* Section 4.2 of the specification: the filtered clone-URL list.
FilteredUrls(all, include, exclude) ==
    IF include # {} THEN UrlsWhere(all, include)
    ELSE UrlsWhere(all, RepoNames \ exclude)

ConflictingInput == repos_to_skip # {} /\ repos_to_check # {}
EmptySearchTerms == search_list = <<>> /\ self_search_list = <<>>
MetadataOk == Len(http_log) >= 1 /\ http_log[1].status = "ok"
MetadataNotFound == Len(http_log) >= 1 /\ http_log[1].status = "not_found"

(* ------------------------------ claims --------------------------------- *)

\* C1: once get_github_repo_list has returned, the list pages it requested
\* are exactly the pages 1..ceil(repository_count / page_size), in order.
\* Stated as the claim has it; the code violates it when the count is a
\* positive multiple of the page size (no page is requested at all).
C1_PagesAreCeil ==
    pc = "enumerated" =>
        PagesRequested =
            [i \in 1..Ceil(Len(account_repos), repository_per_page) |-> i]

\* C2: when enumeration produced a repository list, the run ends having
\* invoked the collaborator once for every clone URL of the filtered list,
\* in order, whichever invocations failed.  Stated as the claim has it; the
\* code leaves the loop at the first invocation that raises.
C2_AllDispatchedDespiteFailures ==
    (pc = "exited" /\ specific_data_set) =>
        DispatchedUrls =
            FilteredUrls(repository_specific_data, repos_to_check,
                         repos_to_skip)

\* C3: when enumeration and filtering succeeded, the run ends with exit
\* status zero after cleanup, also when some dispatch failed.  Stated as the
\* claim has it; the code exits non-zero without cleanup on the first
\* failure and keeps no failure count.
C3_ExitZeroDespiteFailures ==
    (pc = "exited" /\ specific_data_set) =>
        (exit_status = 0 /\ cleanup_ran)

\* C4: a run given a non-empty include list and a non-empty exclude list
\* never issues an HTTP request; it stops in the constructor with exit
\* status 1.
C4_ConflictAbortsBeforeHttp ==
    ConflictingInput =>
        /\ http_log = <<>>
        /\ pc \in {"start", "exited"}
        /\ pc = "exited" => exit_status = 1

C4_Witness == ConflictingInput /\ pc = "exited" /\ search_list # <<>>

\* C5: a run whose search-list argument and configured search_list are both
\* empty never issues a metadata or page request and never dispatches; it
\* stops with exit status 1 at the latest in the search-list check.
C5_EmptyTermsAbortBeforeEnumeration ==
    EmptySearchTerms =>
        /\ http_log = <<>>
        /\ dispatched = <<>>
        /\ pc \in {"start", "constructed", "exited"}
        /\ pc = "exited" => exit_status = 1

C5_Witness ==
    /\ EmptySearchTerms
    /\ ~ConflictingInput
    /\ pc = "exited"
    /\ effective_search_list = <<>>

\* C6: when the run has aborted on a configuration error (conflicting
\* filters or empty search terms), the clone directory has not been created
\* and a pre-existing ledger has not been deleted.  Stated as the claim has
\* it; the code checks the search terms only after the constructor has made
\* the directory and handled the ledger.
C6_ConfigErrorBeforeDiskIO ==
    (pc = "exited" /\ (ConflictingInput \/ EmptySearchTerms)) =>
        (clone_dir # "created" /\ ledger # "deleted")

\* C7: with a non-empty include list, the run ends having dispatched exactly
\* the clone URLs of the enumerated repositories named in the include list,
\* in enumerated order.  Stated as the claim has it; a raising invocation
\* (C2) cuts the sequence short.
C7_IncludeDispatchesExactlyIncluded ==
    (pc = "exited" /\ specific_data_set /\ repos_to_check # {}) =>
        DispatchedUrls = UrlsWhere(repository_specific_data, repos_to_check)

\* C8: with an empty include list, the run ends having dispatched exactly
\* the clone URLs of the enumerated repositories not named in the exclude
\* list (all of them when that list is empty too), in enumerated order.
\* Stated as the claim has it; a raising invocation (C2) cuts the sequence
\* short.
C8_ExcludeDispatchesAllButExcluded ==
    (pc = "exited" /\ specific_data_set /\ repos_to_check = {}) =>
        DispatchedUrls =
            UrlsWhere(repository_specific_data, RepoNames \ repos_to_skip)

\* C9: once the metadata request has been answered 'not found', the run has
\* exited with status 1, and it has requested no list page, dispatched no
\* repository, and run neither cleanup nor printing.
C9_NotFoundAborts ==
    MetadataNotFound =>
        /\ pc = "exited"
        /\ exit_status = 1
        /\ PagesRequested = <<>>
        /\ dispatched = <<>>
        /\ ~cleanup_ran
        /\ ~printed

C9_Witness == MetadataNotFound /\ pc = "exited"

\* C10: when the account exists and no repository of it survives filtering
\* (an account without repositories included), the run ends with exit status
\* zero, no collaborator invocation, cleanup done and the ledger printed if
\* printing was requested.  Stated as the claim has it; the code raises
\* AttributeError when no page was fetched (C1).
C10_EmptyFilteredListCompletes ==
    (/\ pc = "exited"
     /\ MetadataOk
     /\ FilteredUrls([i \in 1..Len(account_repos) |->
                         RepoJson(account_repos[i])],
                     repos_to_check, repos_to_skip) = <<>>) =>
        /\ exit_status = 0
        /\ dispatched = <<>>
        /\ cleanup_ran
        /\ printed = print_result

\* C11: every HTTP request of the run, the metadata request and each
\* list-page request, goes to the endpoint kind of the CLI command that
\* started it: `users` for the user command, `orgs` for the org command.
\* Stated as the claim has it; the user command's is_organization=False
\* never reaches organization_flag, so its requests go to `orgs`.
C11_EndpointMatchesCommand ==
    \A i \in 1..Len(http_log) :
        http_log[i].endpoint = (IF command = "user" THEN "users" ELSE "orgs")

\* C12: once the constructor has prepared the ledger and before any
\* collaborator has run, a ledger prepared with consolidate false does not
\* exist as the earlier run left it (it is absent or was deleted), and a
\* ledger prepared with consolidate true was not deleted (it is absent or
\* still as the earlier run left it).
C12_LedgerPreparation ==
    (results_file_calls # <<>> /\ dispatched = <<>>) =>
        /\ (~consolidate_log) => ledger \in {"absent", "deleted"}
        /\ consolidate_log => ledger \in {"absent", "present"}

C12_Witness ==
    /\ results_file_calls # <<>>
    /\ dispatched = <<>>
    /\ consolidate_log
    /\ ledger = "present"
    /\ pc = "enumerated"

\* C13: in every step that makes or follows a collaborator invocation, the
\* ledger had already been prepared before the step, and the step neither
\* prepares it again nor deletes it.
C13_PreparedBeforeDispatchNeverCleared ==
    [][dispatched' # <<>> =>
          /\ results_file_calls # <<>>
          /\ results_file_calls' = results_file_calls
          /\ ~(ledger # "deleted" /\ ledger' = "deleted")]_vars

C13_Witness ==
    /\ Len(dispatched) >= 2
    /\ ledger = "written"
    /\ ~consolidate_log
    /\ pc = "exited"
    /\ exit_status = 0

\* C14: a run whose enumeration produced a repository list ends having
\* deleted the clone directory exactly once if remove_cloned_dir is set and
\* never if it is not, and any deletion came after the dispatch loop had
\* gone through the whole list.  Stated as the claim has it; a raising
\* invocation (C2) ends the run before the deletion.
C14_CloneDirRemovedOnceAfterDispatch ==
    (pc = "exited" /\ specific_data_set) =>
        /\ Len(removed_paths) = (IF remove_cloned_dir THEN 1 ELSE 0)
        /\ removed_paths # <<>> => idx > Len(repository_specific_data)

\* The name/clone_url pairs of the repositories the listed pages returned,
\* concatenated in the order of the list.
RECURSIVE PagesConcat(_)
PagesConcat(pages) ==
    IF pages = <<>> THEN <<>>
    ELSE LET resp == PageResponse(account_repos, Head(pages),
                                  repository_per_page)
         IN  [i \in 1..Len(resp) |->
                 [name |-> resp[i].name, clone_url |-> resp[i].clone_url]]
             \o PagesConcat(Tail(pages))

\* C15: whenever the repository list used for dispatch is assigned, it is
\* the concatenation, in request order, of the name/clone_url pairs that the
\* pages requested so far returned: every returned repository once, none
\* twice, none missing.
C15_ListIsConcatenationOfPages ==
    specific_data_set =>
        repository_specific_data = PagesConcat(PagesRequested)

C15_Witness ==
    /\ pc = "dispatching"
    /\ PagesRequested = <<1, 2>>
    /\ Len(repository_specific_data) = 3

\* C16: no HTTP request is issued in or after the step that makes the first
\* collaborator invocation, and at no time is more than one collaborator
\* invocation in progress.
C16_EnumerationThenSequentialDispatch ==
    [][/\ dispatched' # <<>> => http_log' = http_log
       /\ Cardinality({i \in 1..Len(dispatched') :
                          dispatched'[i].outcome = "running"}) <= 1]_vars

C16_Witness ==
    /\ PagesRequested = <<1, 2>>
    /\ Len(dispatched) = 2
    /\ dispatched[1].outcome = "ok"
    /\ dispatched[2].outcome = "running"

\* C17: any two collaborator invocations of a run that are for different
\* repositories were given different cloned_repo_dir values.  Stated as the
\* claim has it; the code gives every invocation the same joined path.
C17_DistinctCloneDirsPerRepository ==
    \A i, j \in 1..Len(dispatched) :
        dispatched[i].repo_url # dispatched[j].repo_url =>
            dispatched[i].cloned_repo_dir # dispatched[j].cloned_repo_dir

\* C18: every collaborator invocation, on either filter branch, is made with
\* print_result false, remove_cloned_dir false and consolidate_log true,
\* whatever the run's own three settings are.
C18_FixedFlagsOnEveryInvocation ==
    \A i \in 1..Len(dispatched) :
        /\ dispatched[i].print_result = FALSE
        /\ dispatched[i].remove_cloned_dir = FALSE
        /\ dispatched[i].consolidate_log = TRUE

C18_Witness ==
    /\ Len(dispatched) >= 2
    /\ repos_to_check # {}
    /\ print_result
    /\ remove_cloned_dir
    /\ ~consolidate_log

\* C19: in a run built without a config file, every preparation of the
\* ledger is made with consolidate false and the ledger an earlier run left
\* does not survive it; after preparation, a ledger is still as an earlier
\* run left it only in a run built from a config file that sets
\* consolidate_log.
C19_NoConfigRunStartsFresh ==
    /\ (~config_file /\ results_file_calls # <<>>) =>
          /\ \A i \in 1..Len(results_file_calls) :
                 results_file_calls[i].consolidate = FALSE
          /\ ledger # "present"
    /\ (results_file_calls # <<>> /\ ledger = "present") =>
          (config_file /\ consolidate_log)

C19_Witness ==
    /\ ~config_file
    /\ results_file_calls # <<>>
    /\ ledger = "deleted"
    /\ pc = "exited"
    /\ exit_status = 0

====
